---- MODULE Spec2Model ----
(***************************************************************************)
(* m4btool (src/src/main.rs): the chapter-title normalisation core         *)
(* (standardize_brackets, split_title_tokens, build_token_frequency,       *)
(* dynamic_clean_title) and the chapter-timeline loop of main.             *)
(*                                                                         *)
(* A string is a sequence of characters; a character is a one-element      *)
(* string, except the non-ASCII glyphs, which carry symbolic names:        *)
(*   "FWLPAREN"  U+FF08    "FWRPAREN"  U+FF09                              *)
(*   "FWLCORNER" U+3010    "FWRCORNER" U+3011    "FWCOLON" U+FF1A          *)
(***************************************************************************)
EXTENDS Integers, Sequences, FiniteSets, TLC

VARIABLES
    pc,                        \* position of the running function
    title,                     \* dynamic_clean_title / split_title_tokens: title
    tokens,                    \* dynamic_clean_title: tokens
    idx,                       \* position of `for token in tokens` / `for title in titles`
    in_removal_phase,          \* dynamic_clean_title: in_removal_phase
    cleaned_tokens,            \* dynamic_clean_title: cleaned_tokens
    cleaned,                   \* dynamic_clean_title: the returned String
    token_frequency,           \* the HashMap<String, usize>
    total_titles,              \* dynamic_clean_title: total_titles
    threshold,                 \* dynamic_clean_title: threshold, a fraction [num, den]
    titles,                    \* build_token_frequency: titles
    final_files,               \* main: final_files, as (title, ffprobe outcome) records
    current_chapter_start_ms,  \* main: current_chapter_start_ms
    chapters                   \* main: the [CHAPTER] blocks written to the metadata file

vars == <<pc, title, tokens, idx, in_removal_phase, cleaned_tokens, cleaned,
          token_frequency, total_titles, threshold, titles, final_files,
          current_chapter_start_ms, chapters>>

\* ------------------------------------------------------------------ bounds

MaxTitleLen == 4
MaxCleanLen == 3
MaxBatch == 2
MaxBatchChars == 5
MaxCount == 2
MaxTotal == 2
ThrDen == 2
MaxFiles == 3
WordMax == 2

\* --------------------------------------------------------------- characters

Digits == {"0", "1", "2", "3", "4", "5", "6", "7", "8", "9"}

\* \s of the regex crate and char::is_whitespace (str::trim) are both the Unicode
\* White_Space property; these are its members used here.
Whitespace == {" ", "\t", "\n"}

\* The characters excluded by the class [^0-9\s\-:FWCOLON\(\)\[\]] that are neither
\* digits nor whitespace.
ClassExcluded == {"-", ":", "FWCOLON", "(", ")", "[", "]"}

\* The class without 0-9 in it: digits would join the plain runs.
IsPlainCharDigits(c) == c \notin Whitespace \cup ClassExcluded

\* The class [^0-9\s\-:FWCOLON\(\)\[\]].

IsPlainChar(c) == c \notin Digits \cup Whitespace \cup ClassExcluded

\* The characters titles are drawn from: two letters, a digit, two kinds of
\* whitespace, the canonical brackets and two alternate bracket glyphs.
TitleChars == {"a", "b", "1", " ", "\n", "[", "]", "(", "FWRCORNER"}

\* The characters the titles handed to the cleaner are drawn from.
CleanChars == {"a", "b", "1", " ", "[", "]", "("}

\* The characters the titles of a batch are drawn from: "a" and "aa" are two
\* keys, and an unmatched bracket separates two plain runs as a digit would.
BatchChars == {"a", "[", "]"}

\* The strings of at most n characters (a function on 1..m is a sequence).
StringsUpTo(chars, n) == UNION {[1..m -> chars] : m \in 0..n}

\* ---------------------------------------------------------------- tokenizer

\* str::replace for a one-character pattern.
replace(s, from, to) == [k \in 1..Len(s) |-> IF s[k] = from THEN to ELSE s[k]]

standardize_brackets(input) ==
    replace(replace(replace(replace(replace(replace(input,
        "FWLPAREN", "["), "FWRPAREN", "]"), "(", "["), ")", "]"),
        "FWLCORNER", "["), "FWRCORNER", "]")

\* The end of open.*?close begun at s[i]: the first close after i, provided no
\* "\n" lies between (. matches every character but "\n"); 0 when there is none.
SpanEnd(s, i, open, close) ==
    IF s[i] # open THEN 0
    ELSE LET ends == {j \in (i + 1)..Len(s) :
                         /\ s[j] = close
                         /\ \A k \in (i + 1)..(j - 1) : s[k] # close /\ s[k] # "\n"}
         IN  IF ends = {} THEN 0 ELSE CHOOSE j \in ends : TRUE

\* The end of the greedy run [^...]+ begun at s[i]; 0 when s[i] is not in the class.
RunEnd(s, i) ==
    IF ~IsPlainChar(s[i]) THEN 0
    ELSE CHOOSE j \in i..Len(s) :
             /\ \A k \in i..j : IsPlainChar(s[k])
             /\ (j = Len(s) \/ ~IsPlainChar(s[j + 1]))

\* The match of (\(.*?\)|\[.*?\])|([^...]+) anchored at i, from the ends of its
\* three branches: the first alternative that matches wins (group 1 before
\* group 2); group 0 is no match at i.
FirstMatch(i, paren, square, run) ==
    IF paren # 0 THEN [group |-> 1, start |-> i, end |-> paren]
    ELSE IF square # 0 THEN [group |-> 1, start |-> i, end |-> square]
    ELSE IF run # 0 THEN [group |-> 2, start |-> i, end |-> run]
    ELSE [group |-> 0, start |-> i, end |-> i]

MatchAt(s, i) ==
    FirstMatch(i, SpanEnd(s, i, "(", ")"), SpanEnd(s, i, "[", "]"), RunEnd(s, i))

\* An iteration that resumes on the last character of a match instead of after
\* it, so that successive matches overlap.
RECURSIVE captures_iter_overlapping(_, _)
NextCaptureOverlapping(s, pos, m) ==
    IF m.group = 0 THEN captures_iter_overlapping(s, pos + 1)
    ELSE IF m.end > m.start THEN <<m>> \o captures_iter_overlapping(s, m.end)
    ELSE <<m>> \o captures_iter_overlapping(s, m.end + 1)

captures_iter_overlapping(s, pos) ==
    IF pos > Len(s) THEN <<>> ELSE NextCaptureOverlapping(s, pos, MatchAt(s, pos))

\* Regex::captures_iter from position pos: successive non-overlapping leftmost
\* matches; a position without a match is passed over.
RECURSIVE captures_iter(_, _)
NextCapture(s, pos, m) ==
    IF m.group = 0 THEN captures_iter(s, pos + 1)
    ELSE <<m>> \o captures_iter(s, m.end + 1)

captures_iter(s, pos) ==
    IF pos > Len(s) THEN <<>> ELSE NextCapture(s, pos, MatchAt(s, pos))

TitleToken(capture, s) ==
    [is_bracketed |-> capture.group = 1,
     text |-> SubSeq(s, capture.start, capture.end)]

\* The loop over captures_iter(&standardized_title), pushing one token a capture.
TokensOf(captures, standardized_title) ==
    [k \in 1..Len(captures) |-> TitleToken(captures[k], standardized_title)]

ScanTitle(standardized_title) ==
    TokensOf(captures_iter(standardized_title, 1), standardized_title)

split_title_tokens(t) == ScanTitle(standardize_brackets(t))

\* ------------------------------------------------------------ title cleaner

\* token_frequency.get(&token.text).copied().unwrap_or(0)
get_or_zero(freq, text) == IF text \in DOMAIN freq THEN freq[text] ELSE 0

\* The comparison as it would be with > in the place of >=.
RatioMeetsStrict(frequency, total, thr) ==
    IF total = 0 THEN frequency > 0
    ELSE frequency * thr.den > thr.num * total

\* The comparison as it would be with <= in the place of >=.
RatioMeetsInverted(frequency, total, thr) ==
    IF total = 0 THEN frequency > 0
    ELSE frequency * thr.den <= thr.num * total

\* (frequency as f64) / (total_titles as f64) >= threshold, for a threshold that
\* is the f64 nearest to num/den.  f64 division is correctly rounded and rounding
\* is monotone, and two distinct fractions of integers this small never round to
\* the same f64, so the comparison agrees with the comparison of the exact
\* fractions.  With total_titles = 0 the quotient is NaN for frequency = 0 (every
\* comparison with NaN is false) and +infinity otherwise.
RatioMeets(frequency, total, thr) ==
    IF total = 0 THEN frequency > 0
    ELSE frequency * thr.den >= thr.num * total

\* A body of the loop that goes on filtering after a token was kept.
CleanBodyNoPhaseEnd(st, token, freq, total, thr) ==
    IF ~token.is_bracketed /\ RatioMeets(get_or_zero(freq, token.text), total, thr)
    THEN st
    ELSE [in_removal_phase |-> FALSE,
          cleaned_tokens |-> Append(st.cleaned_tokens, token.text)]

\* A body of the loop that filters a bracketed token like a plain one.
CleanBodyNoBracketCase(st, token, freq, total, thr) ==
    IF st.in_removal_phase
    THEN IF RatioMeets(get_or_zero(freq, token.text), total, thr)
         THEN st
         ELSE [in_removal_phase |-> FALSE,
               cleaned_tokens |-> Append(st.cleaned_tokens, token.text)]
    ELSE [in_removal_phase |-> st.in_removal_phase,
          cleaned_tokens |-> Append(st.cleaned_tokens, token.text)]

\* One iteration of `for token in tokens` on the loop state
\* (in_removal_phase, cleaned_tokens).
CleanBody(st, token, freq, total, thr) ==
    IF st.in_removal_phase /\ ~token.is_bracketed
    THEN LET frequency == get_or_zero(freq, token.text)
         IN  IF RatioMeets(frequency, total, thr)
             THEN st
             ELSE [in_removal_phase |-> FALSE,
                   cleaned_tokens |-> Append(st.cleaned_tokens, token.text)]
    ELSE [in_removal_phase |-> IF token.is_bracketed THEN FALSE
                               ELSE st.in_removal_phase,
          cleaned_tokens |-> Append(st.cleaned_tokens, token.text)]

\* The loop state after the first n tokens.
RECURSIVE CleanLoop(_, _, _, _, _)
CleanLoop(toks, n, freq, total, thr) ==
    IF n = 0 THEN [in_removal_phase |-> TRUE, cleaned_tokens |-> <<>>]
    ELSE CleanBody(CleanLoop(toks, n - 1, freq, total, thr), toks[n], freq, total, thr)

\* [String]::join("")
RECURSIVE join(_)
join(texts) == IF texts = <<>> THEN <<>> ELSE Head(texts) \o join(Tail(texts))

\* str::trim: the leading and the trailing whitespace removed.
RECURSIVE trim_start(_)
trim_start(s) ==
    IF s # <<>> /\ Head(s) \in Whitespace THEN trim_start(Tail(s)) ELSE s

RECURSIVE trim_end(_)
trim_end(s) ==
    IF s # <<>> /\ s[Len(s)] \in Whitespace
    THEN trim_end(SubSeq(s, 1, Len(s) - 1)) ELSE s

trim(s) == trim_end(trim_start(s))

\* The whole function, as main calls it.
dynamic_clean_title(t, freq, total, thr) ==
    LET toks == split_title_tokens(t)
    IN  trim(join(CleanLoop(toks, Len(toks), freq, total, thr).cleaned_tokens))

\* ------------------------------------------------------ inputs of the cleaner

Texts(toks) == {toks[k].text : k \in 1..Len(toks)}

\* Every table over the texts of the title's own tokens, bracketed ones included
\* (other keys are never looked up); an absent key is a count of 0.
Tables(t) ==
    UNION {[keys -> 1..MaxCount] : keys \in SUBSET Texts(split_title_tokens(t))}

\* The fractions k/ThrDen, from 0 (below the contract) to above 1 (beyond it).
Thresholds == {[num |-> k, den |-> ThrDen] : k \in 0..(ThrDen + 1)}

InitClean ==
    /\ pc = "clean_start"
    /\ title \in StringsUpTo(CleanChars, MaxCleanLen)
    /\ token_frequency \in Tables(title)
    /\ total_titles \in 0..MaxTotal
    /\ threshold \in Thresholds
    /\ tokens = <<>>
    /\ idx = 0
    /\ in_removal_phase = TRUE
    /\ cleaned_tokens = <<>>
    /\ cleaned = <<>>
    /\ titles = <<>>
    /\ final_files = <<>>
    /\ current_chapter_start_ms = 0
    /\ chapters = <<>>

\* let tokens = split_title_tokens(title); the two `let mut`.
CleanTokenize ==
    /\ pc = "clean_start"
    /\ tokens' = split_title_tokens(title)
    /\ cleaned_tokens' = <<>>
    /\ in_removal_phase' = TRUE
    /\ idx' = 1
    /\ pc' = "clean_loop"
    /\ UNCHANGED <<title, cleaned, token_frequency, total_titles, threshold,
                   titles, final_files, current_chapter_start_ms, chapters>>

\* One iteration of `for token in tokens`.
CleanStep ==
    /\ pc = "clean_loop"
    /\ idx <= Len(tokens)
    /\ LET st == CleanBody([in_removal_phase |-> in_removal_phase,
                            cleaned_tokens |-> cleaned_tokens],
                           tokens[idx], token_frequency, total_titles, threshold)
       IN  /\ in_removal_phase' = st.in_removal_phase
           /\ cleaned_tokens' = st.cleaned_tokens
    /\ idx' = idx + 1
    /\ UNCHANGED <<pc, title, tokens, cleaned, token_frequency, total_titles,
                   threshold, titles, final_files, current_chapter_start_ms,
                   chapters>>

\* cleaned_tokens.join("").trim().to_string()
CleanReturn ==
    /\ pc = "clean_loop"
    /\ idx > Len(tokens)
    /\ cleaned' = trim(join(cleaned_tokens))
    /\ pc' = "clean_done"
    /\ UNCHANGED <<title, tokens, idx, in_removal_phase, cleaned_tokens,
                   token_frequency, total_titles, threshold, titles, final_files,
                   current_chapter_start_ms, chapters>>

NextClean == CleanTokenize \/ CleanStep \/ CleanReturn

SpecClean == InitClean /\ [][NextClean]_vars

\* ------------------------------------------------- properties of the cleaner

\* The contract of clean: total_titles >= 1 and 0 < threshold <= 1.
ValidThreshold(thr) == 0 < thr.num /\ thr.num <= thr.den

ValidCall == total_titles >= 1 /\ ValidThreshold(threshold)

InClean == pc \in {"clean_loop", "clean_done"}

\* A bracketed token's text opens with "[": no plain run holds a bracket.
IsBracketText(text) == text # <<>> /\ text[1] = "["

IsBracketed(token) == token.is_bracketed

TextsOf(toks) == [k \in 1..Len(toks) |-> toks[k].text]

\* The count the claim speaks of: the table's entry, an absent token counting 0.
CountOf(token) ==
    IF token.text \in DOMAIN token_frequency THEN token_frequency[token.text] ELSE 0

\* count / total_titles >= threshold and < threshold, on the exact fractions.
AtOrAbove(token, thr) == CountOf(token) * thr.den >= thr.num * total_titles

Below(token, thr) == CountOf(token) * thr.den < thr.num * total_titles

\* C1 (bracket preservation): under the contract, the Bracketed tokens among the
\* tokens processed so far are exactly the bracketed texts kept so far, in their
\* original order, and the returned string is the kept texts joined, so every
\* Bracketed token of the title is in the output, whatever came before it.
C1_BracketPreservation ==
    (InClean /\ ValidCall) =>
        /\ SelectSeq(cleaned_tokens, IsBracketText)
             = TextsOf(SelectSeq(SubSeq(tokens, 1, idx - 1), IsBracketed))
        /\ pc = "clean_done" => cleaned = join(cleaned_tokens)

\* A Bracketed token that follows a dropped Plain token, and is all that is kept.
C1_Witness ==
    /\ pc = "clean_done"
    /\ ValidCall
    /\ Len(tokens) = 2
    /\ ~tokens[1].is_bracketed
    /\ tokens[2].is_bracketed
    /\ tokens[2].text \in DOMAIN token_frequency
    /\ AtOrAbove(tokens[2], threshold)
    /\ cleaned = tokens[2].text

\* C2 (prefix-only stripping): under the contract, in every step of a pass the
\* flag is false as soon as a token has been kept, a false flag stays false, a
\* token met with the flag false is kept, and so the kept tokens are a suffix
\* of the processed tokens and the dropped ones a prefix of Plain tokens.
C2_Step ==
    (pc = "clean_loop" /\ ValidCall) =>
        /\ cleaned_tokens # <<>> => ~in_removal_phase
        /\ ~in_removal_phase => ~in_removal_phase'
        /\ (~in_removal_phase /\ idx' = idx + 1)
               => cleaned_tokens' = Append(cleaned_tokens, tokens[idx].text)
        /\ LET n == idx' - 1
               d == n - Len(cleaned_tokens')
           IN  /\ d >= 0
               /\ cleaned_tokens' = TextsOf(SubSeq(tokens, d + 1, n))
               /\ \A j \in 1..d : ~tokens[j].is_bracketed

C2_PrefixOnly == [][C2_Step]_vars

\* A Plain token at or above the threshold that was kept because an earlier
\* token had been kept.
C2_Witness ==
    /\ pc = "clean_done"
    /\ ValidCall
    /\ Len(tokens) >= 2
    /\ ~tokens[Len(tokens)].is_bracketed
    /\ AtOrAbove(tokens[Len(tokens)], threshold)
    /\ Len(cleaned_tokens) >= 2
    /\ cleaned_tokens[Len(cleaned_tokens)] = tokens[Len(tokens)].text

\* C3 (inclusive threshold): under the contract, an iteration that meets a Plain
\* token while still stripping drops it and goes on stripping if its ratio is at
\* or above the threshold (equal included), and keeps it and ends the stripping
\* phase if its ratio is below.
C3_Step ==
    (/\ pc = "clean_loop"
     /\ ValidCall
     /\ idx <= Len(tokens)
     /\ idx' = idx + 1
     /\ in_removal_phase
     /\ ~tokens[idx].is_bracketed) =>
        /\ AtOrAbove(tokens[idx], threshold)
               => cleaned_tokens' = cleaned_tokens /\ in_removal_phase'
        /\ Below(tokens[idx], threshold)
               => /\ cleaned_tokens' = Append(cleaned_tokens, tokens[idx].text)
                  /\ ~in_removal_phase'

C3_InclusiveThreshold == [][C3_Step]_vars

\* The first token is Plain, its ratio is exactly the threshold, and it was dropped.
C3_Witness ==
    /\ pc = "clean_loop"
    /\ ValidCall
    /\ idx = 2
    /\ ~tokens[1].is_bracketed
    /\ CountOf(tokens[1]) * threshold.den = threshold.num * total_titles
    /\ cleaned_tokens = <<>>
    /\ in_removal_phase

\* The tokens kept for the same title, table and total_titles under thr.
KeptUnder(thr) ==
    CleanLoop(tokens, Len(tokens), token_frequency, total_titles, thr).cleaned_tokens

IsSuffix(a, b) ==
    Len(a) <= Len(b) /\ a = SubSeq(b, Len(b) - Len(a) + 1, Len(b))

\* C4 (monotonicity in threshold): under the contract, for every threshold t2 of
\* the contract at or above the threshold of the finished pass, what the pass
\* kept is a suffix of what t2 keeps: t2 drops a prefix of what the pass dropped.
C4_Monotonic ==
    (pc = "clean_done" /\ ValidCall) =>
        \A t2 \in Thresholds :
            (ValidThreshold(t2) /\ threshold.num * t2.den <= t2.num * threshold.den)
                => IsSuffix(cleaned_tokens, KeptUnder(t2))

\* A higher threshold that keeps a token the pass dropped.
C4_Witness ==
    /\ pc = "clean_done"
    /\ ValidCall
    /\ \E t2 \in Thresholds :
           /\ ValidThreshold(t2)
           /\ threshold.num * t2.den < t2.num * threshold.den
           /\ Len(KeptUnder(t2)) > Len(cleaned_tokens)
           /\ Len(cleaned_tokens) > 0

\* C5 (precondition check): a call returns a cleaned title only if total_titles
\* >= 1 and the threshold is in (0, 1]; any other call is rejected.
C5_PreconditionChecked == pc = "clean_done" => ValidCall

\* C7 (degenerate output): under the contract, a title without a Bracketed token
\* whose Plain tokens are all at or above the threshold is cleaned to the empty
\* string, returned as a normal result; the empty title is such a title.
C7_Degenerate ==
    (/\ pc = "clean_done"
     /\ ValidCall
     /\ \A k \in 1..Len(tokens) :
            ~tokens[k].is_bracketed /\ AtOrAbove(tokens[k], threshold))
        => cleaned = <<>>

\* Two Plain tokens, both at or above the threshold, stripped to nothing.
C7_Witness ==
    /\ pc = "clean_done"
    /\ ValidCall
    /\ Len(tokens) = 2
    /\ \A k \in 1..2 : ~tokens[k].is_bracketed /\ AtOrAbove(tokens[k], threshold)
    /\ tokens[1].text # tokens[2].text
    /\ cleaned = <<>>

\* --------------------------------------------------------------- tokenizer run

InitSplit ==
    /\ pc = "split_start"
    /\ title \in StringsUpTo(TitleChars, MaxTitleLen)
    /\ tokens = <<>>
    /\ idx = 0
    /\ in_removal_phase = TRUE
    /\ cleaned_tokens = <<>>
    /\ cleaned = <<>>
    /\ token_frequency = <<>>
    /\ total_titles = 0
    /\ threshold = [num |-> 1, den |-> 1]
    /\ titles = <<>>
    /\ final_files = <<>>
    /\ current_chapter_start_ms = 0
    /\ chapters = <<>>

\* split_title_tokens(title), its result left in tokens.
SplitTitle ==
    /\ pc = "split_start"
    /\ tokens' = split_title_tokens(title)
    /\ pc' = "split_done"
    /\ UNCHANGED <<title, idx, in_removal_phase, cleaned_tokens, cleaned,
                   token_frequency, total_titles, threshold, titles, final_files,
                   current_chapter_start_ms, chapters>>

NextSplit == SplitTitle

SpecSplit == InitSplit /\ [][NextSplit]_vars

\* ------------------------------------------------ properties of the tokenizer

\* The separator class the claims name: digit, whitespace, hyphen, colon.
SeparatorClass == Digits \cup Whitespace \cup {"-", ":", "FWCOLON"}

\* The alternate bracket glyphs, which standardization rewrites.
AltBrackets == {"(", ")", "FWLPAREN", "FWRPAREN", "FWLCORNER", "FWRCORNER"}

BracketChars == {"[", "]"} \cup AltBrackets

TextAt(s, i, text) ==
    /\ text # <<>>
    /\ i + Len(text) - 1 <= Len(s)
    /\ SubSeq(s, i, i + Len(text) - 1) = text

IsSeparator(s, j) == s[j] \in SeparatorClass

\* A bracket no bracketed span takes: a "]", or a "[" with no "]" after it
\* before the end of its line.
UnmatchedBracket(s, j) ==
    \/ s[j] = "]"
    \/ /\ s[j] = "["
       /\ ~\E e \in (j + 1)..Len(s) :
              s[e] = "]" /\ \A m \in (j + 1)..(e - 1) : s[m] # "\n"

\* The characters that may be left out of every token: the separators, and with
\* them, when brackets is TRUE, the unmatched brackets.
Dropped(s, j, brackets) == IsSeparator(s, j) \/ (brackets /\ UnmatchedBracket(s, j))

\* s from position i on is the texts of toks from k on, in order, each at a
\* place of its own, with nothing between and around them but dropped characters.
RECURSIVE Partition(_, _, _, _, _)
Partition(s, i, toks, k, brackets) ==
    IF i > Len(s) THEN k > Len(toks)
    ELSE \/ /\ k <= Len(toks)
            /\ TextAt(s, i, toks[k].text)
            /\ Partition(s, i + Len(toks[k].text), toks, k + 1, brackets)
         \/ /\ Dropped(s, i, brackets)
            /\ Partition(s, i + 1, toks, k, brackets)

\* C8 as claimed (token partition completeness): every character of the
\* standardized title is in exactly one token or is a dropped digit, whitespace,
\* hyphen or colon, unmatched brackets included.
C8_PartitionSeparatorsOnly ==
    pc = "split_done" =>
        Partition(standardize_brackets(title), 1, tokens, 1, FALSE)

\* C8 as amended: every character of the standardized title is in exactly one
\* token or is a dropped digit, whitespace, hyphen or colon, or a bracket that no
\* bracketed span takes; tokens do not overlap.
C8_Partition ==
    pc = "split_done" =>
        Partition(standardize_brackets(title), 1, tokens, 1, TRUE)

\* Two tokens, a bracket that no span takes inside the title, and a separator.
C8_Witness ==
    /\ pc = "split_done"
    /\ Len(tokens) = 2
    /\ \E j \in 2..(Len(title) - 1) : UnmatchedBracket(standardize_brackets(title), j)
    /\ \E j \in 1..Len(title) : title[j] \in SeparatorClass

\* A title the tokenizer hands back whole: plain runs and square-bracketed spans
\* (a "[" up to the first "]" on its line, no alternate glyph inside) and
\* nothing else.
RECURSIVE Lossless(_, _)
Lossless(s, i) ==
    IF i > Len(s) THEN TRUE
    ELSE IF s[i] = "["
    THEN LET ends == {e \in (i + 1)..Len(s) :
                         /\ s[e] = "]"
                         /\ \A m \in (i + 1)..(e - 1) :
                                s[m] \notin {"]", "\n"} \cup AltBrackets}
         IN  \E e \in ends : Lossless(s, e + 1)
    ELSE s[i] \notin SeparatorClass \cup BracketChars /\ Lossless(s, i + 1)

\* C9 as claimed (lossy tokenization): the texts of the tokens, concatenated,
\* never equal the title.
C9_NeverReproduces == pc = "split_done" => join(TextsOf(tokens)) # title

\* C9 as amended: the concatenation is never longer than the title, and it
\* equals the title exactly when the title is plain runs and square-bracketed
\* spans only; a title with a character the tokenizer drops or rewrites is
\* never reproduced.
C9_LossyUnlessLossless ==
    pc = "split_done" =>
        /\ Len(join(TextsOf(tokens))) <= Len(title)
        /\ join(TextsOf(tokens)) = title <=> Lossless(title, 1)

\* A title with a digit between two plain runs, not reproduced.
C9_Witness ==
    /\ pc = "split_done"
    /\ Len(tokens) = 2
    /\ \A k \in 1..2 : ~tokens[k].is_bracketed
    /\ \E j \in 1..Len(title) : title[j] \in Digits
    /\ join(TextsOf(tokens)) # title

\* ------------------------------------------------------- frequency profiler

\* *token_frequency.entry(token.text).or_insert(0) += 1
Bump(freq, text) ==
    IF text \in DOMAIN freq THEN [freq EXCEPT ![text] = @ + 1]
    ELSE [x \in DOMAIN freq \cup {text} |-> IF x = text THEN 1 ELSE freq[x]]

\* A loop body that counts a text once per title: not again when an earlier
\* token of the title had it.
CountTokenOncePerTitle(f, toks, n) ==
    IF /\ ~toks[n].is_bracketed
       /\ \A m \in 1..(n - 1) : toks[m].is_bracketed \/ toks[m].text # toks[n].text
    THEN Bump(f, toks[n].text) ELSE f

\* The body of the inner loop for the n-th token: `if !token.is_bracketed`.
CountToken(f, toks, n) ==
    IF ~toks[n].is_bracketed THEN Bump(f, toks[n].text) ELSE f

\* The inner loop `for token in split_title_tokens(title)` over the first n tokens.
RECURSIVE CountTokens(_, _, _)
CountTokens(freq, toks, n) ==
    IF n = 0 THEN freq ELSE CountToken(CountTokens(freq, toks, n - 1), toks, n)

\* HashMap::new()
EmptyMap == <<>>

CountAll(freq, toks) == CountTokens(freq, toks, Len(toks))

\* The whole function, as main calls it: the outer loop over the first n titles.
RECURSIVE CountTitles(_, _)
CountTitles(ts, n) ==
    IF n = 0 THEN EmptyMap
    ELSE CountAll(CountTitles(ts, n - 1), split_title_tokens(ts[n]))

build_token_frequency(ts) == CountTitles(ts, Len(ts))

\* Every first \o rest.
Prepended(firsts, rests) == {<<t>> \o b : t \in firsts, b \in rests}

\* The batches of at most n titles with at most c characters in all.
RECURSIVE Batches(_, _)
Batches(n, c) ==
    IF n = 0 THEN {<<>>}
    ELSE {<<>>} \cup UNION {Prepended([1..m -> BatchChars], Batches(n - 1, c - m)) :
                               m \in 0..c}

InitFreq ==
    /\ pc = "freq_loop"
    /\ titles \in Batches(MaxBatch, MaxBatchChars)
    /\ token_frequency = EmptyMap
    /\ idx = 1
    /\ title = <<>>
    /\ tokens = <<>>
    /\ in_removal_phase = TRUE
    /\ cleaned_tokens = <<>>
    /\ cleaned = <<>>
    /\ total_titles = 0
    /\ threshold = [num |-> 1, den |-> 1]
    /\ final_files = <<>>
    /\ current_chapter_start_ms = 0
    /\ chapters = <<>>

\* One iteration of `for title in titles`, its inner loop included.
FreqTitle ==
    /\ pc = "freq_loop"
    /\ idx <= Len(titles)
    /\ \E toks \in {split_title_tokens(titles[idx])} :
           token_frequency' = CountTokens(token_frequency, toks, Len(toks))
    /\ idx' = idx + 1
    /\ UNCHANGED <<pc, title, tokens, in_removal_phase, cleaned_tokens, cleaned,
                   total_titles, threshold, titles, final_files,
                   current_chapter_start_ms, chapters>>

\* The loop is over: token_frequency is returned.
FreqReturn ==
    /\ pc = "freq_loop"
    /\ idx > Len(titles)
    /\ pc' = "freq_done"
    /\ UNCHANGED <<title, tokens, idx, in_removal_phase, cleaned_tokens, cleaned,
                   token_frequency, total_titles, threshold, titles, final_files,
                   current_chapter_start_ms, chapters>>

NextFreq == FreqTitle \/ FreqReturn

SpecFreq == InitFreq /\ [][NextFreq]_vars

\* ------------------------------------------------- properties of the profiler

\* C6 (frequency table content): after the first idx - 1 titles, and so in the
\* table returned, the keys are exactly the texts of the Plain tokens of those
\* titles, and the value of a key is the number of places (title, position)
\* where a Plain token has that text, all titles together; a Bracketed token
\* adds nothing.
C6_TableContent ==
    pc \in {"freq_loop", "freq_done"} =>
        \A toks \in {[t \in 1..(idx - 1) |-> split_title_tokens(titles[t])]} :
            \A places \in {UNION {{<<t, k>> : k \in {j \in 1..Len(toks[t]) :
                                                       ~toks[t][j].is_bracketed}} :
                                    t \in 1..(idx - 1)}} :
                /\ DOMAIN token_frequency = {toks[p[1]][p[2]].text : p \in places}
                /\ \A key \in DOMAIN token_frequency :
                       token_frequency[key]
                           = Cardinality({p \in places : toks[p[1]][p[2]].text = key})

\* Two titles, one with the same Plain text twice and a Bracketed token, and a
\* key counted three times.
C6_Witness ==
    /\ pc = "freq_done"
    /\ Len(titles) = 2
    /\ \E t \in 1..2 :
           LET toks == split_title_tokens(titles[t])
           IN  /\ Len(toks) = 3
               /\ toks[2].is_bracketed
               /\ ~toks[1].is_bracketed
               /\ toks[1] = toks[3]
    /\ \E key \in DOMAIN token_frequency : token_frequency[key] = 3

\* --------------------------------------------------- main: chapter timeline

\* u64 is modelled by the integers 0..WordMax: WordMax stands for u64::MAX.
WordModulus == WordMax + 1

\* What running ffprobe on a file comes to.  ms is the f64 product
\* duration_sec * 1000.0 after .round(), where stdout parsed as a number: from
\* below zero to beyond u64::MAX.
ProbeOutcomes ==
    {[kind |-> k, ms |-> 0] : k \in {"exit_failure", "unparsable", "nan"}}
        \cup {[kind |-> "number", ms |-> m] : m \in (-1)..(WordMax + 1)}

\* `as u64` on an f64: saturating, NaN to 0.
as_u64(kind, ms) ==
    IF kind = "nan" THEN 0
    ELSE IF ms < 0 THEN 0
    ELSE IF ms > WordMax THEN WordMax
    ELSE ms

\* get_duration_ms returns None when ffprobe fails or its output is no number
\* ("nan" parses: NaN is a number to f64's FromStr).
HasDuration(probe) == probe.kind \in {"number", "nan"}

\* get_duration_ms: the Some value.
get_duration_ms(probe) == as_u64(probe.kind, probe.ms)

\* The file stems the chapter titles are drawn from.
MainTitles == {<<"a", "1">>, <<"a", "[", "b", "]">>}

\* The threshold main passes: 0.8.
MainThreshold == [num |-> 4, den |-> 5]

FilesUpTo(n) ==
    UNION {[1..m -> [title : MainTitles, probe : ProbeOutcomes]] : m \in 1..n}

ChapterTitles(files) == [k \in 1..Len(files) |-> files[k].title]

\* main returns early without audio files, so final_files is never empty.
InitMain ==
    /\ pc = "main_titles"
    /\ final_files \in FilesUpTo(MaxFiles)
    /\ titles = <<>>
    /\ token_frequency = EmptyMap
    /\ total_titles = 0
    /\ threshold = MainThreshold
    /\ current_chapter_start_ms = 0
    /\ chapters = <<>>
    /\ idx = 0
    /\ title = <<>>
    /\ tokens = <<>>
    /\ in_removal_phase = TRUE
    /\ cleaned_tokens = <<>>
    /\ cleaned = <<>>

\* chapter_titles, token_frequency_map, total_chapters; then the metadata
\* header and `let mut current_chapter_start_ms = 0u64`.
MainProfile ==
    /\ pc = "main_titles"
    /\ titles' = ChapterTitles(final_files)
    /\ token_frequency' = build_token_frequency(ChapterTitles(final_files))
    /\ total_titles' = Len(final_files)
    /\ current_chapter_start_ms' = 0
    /\ chapters' = <<>>
    /\ idx' = 1
    /\ pc' = "meta_loop"
    /\ UNCHANGED <<title, tokens, in_removal_phase, cleaned_tokens, cleaned,
                   threshold, final_files>>

\* The [CHAPTER] block written for a file.
Chapter(start, end, file) ==
    [START |-> start, END |-> end,
     title |-> dynamic_clean_title(file.title, token_frequency, total_titles,
                                   threshold)]

\* u64 + u64 that did not panic: the sum, wrapped when it overflows (a build
\* without overflow checks).
AddWrapping(a, b) == (a + b) % WordModulus

\* An iteration for a file with a duration: the chapter is written and the
\* running start moves to its end.
MetaChapter ==
    /\ pc = "meta_loop"
    /\ idx <= Len(final_files)
    /\ HasDuration(final_files[idx].probe)
    /\ \E chapter_end_ms \in {AddWrapping(current_chapter_start_ms,
                                          get_duration_ms(final_files[idx].probe))} :
           /\ chapters' = Append(chapters, Chapter(current_chapter_start_ms,
                                                   chapter_end_ms, final_files[idx]))
           /\ current_chapter_start_ms' = chapter_end_ms
    /\ idx' = idx + 1
    /\ UNCHANGED <<pc, title, tokens, in_removal_phase, cleaned_tokens, cleaned,
                   token_frequency, total_titles, threshold, titles, final_files>>

\* The same addition in a build with overflow checks: `attempt to add with
\* overflow` panics, and main ends there.
MetaOverflowPanic ==
    /\ pc = "meta_loop"
    /\ idx <= Len(final_files)
    /\ HasDuration(final_files[idx].probe)
    /\ current_chapter_start_ms + get_duration_ms(final_files[idx].probe) > WordMax
    /\ pc' = "panicked"
    /\ UNCHANGED <<title, tokens, idx, in_removal_phase, cleaned_tokens, cleaned,
                   token_frequency, total_titles, threshold, titles, final_files,
                   current_chapter_start_ms, chapters>>

\* An iteration for a file without a duration: a warning, nothing else.
MetaSkip ==
    /\ pc = "meta_loop"
    /\ idx <= Len(final_files)
    /\ ~HasDuration(final_files[idx].probe)
    /\ idx' = idx + 1
    /\ UNCHANGED <<pc, title, tokens, in_removal_phase, cleaned_tokens, cleaned,
                   token_frequency, total_titles, threshold, titles, final_files,
                   current_chapter_start_ms, chapters>>

\* metadata_writer.flush()
MetaFlush ==
    /\ pc = "meta_loop"
    /\ idx > Len(final_files)
    /\ pc' = "meta_done"
    /\ UNCHANGED <<title, tokens, idx, in_removal_phase, cleaned_tokens, cleaned,
                   token_frequency, total_titles, threshold, titles, final_files,
                   current_chapter_start_ms, chapters>>

NextMain == MainProfile \/ MetaChapter \/ MetaOverflowPanic \/ MetaSkip \/ MetaFlush

SpecMain == InitMain /\ [][NextMain]_vars

\* ------------------------------------------------ properties of the timeline

YieldsDuration(file) == file.probe.kind \in {"number", "nan"}

\* The durations of the files processed so far that yielded one, in order.
YieldedDurations ==
    LET yielded == SelectSeq(SubSeq(final_files, 1, idx - 1), YieldsDuration)
    IN  [k \in 1..Len(yielded) |-> get_duration_ms(yielded[k].probe)]

\* C10 (gap-free timeline): in the metadata loop, one chapter is written for
\* each processed file that yielded a duration and none for the others; the
\* first chapter starts at 0, each later one starts where the one before it
\* ends, each has END = START + its duration and so END >= START, and the
\* running start time is the END of the last chapter written.
C10_GapFreeTimeline ==
    pc \in {"meta_loop", "meta_done", "panicked"} =>
        \A durations \in {YieldedDurations} :
            /\ Len(chapters) = Len(durations)
            /\ \A k \in 1..Len(chapters) :
                   /\ chapters[k].START = IF k = 1 THEN 0 ELSE chapters[k - 1].END
                   /\ chapters[k].END = chapters[k].START + durations[k]
                   /\ chapters[k].END >= chapters[k].START
            /\ current_chapter_start_ms
                   = IF chapters = <<>> THEN 0 ELSE chapters[Len(chapters)].END

====
